---- MODULE Spec2Model ----
(***************************************************************************)
(* Linear MCP server (src/index.js): the RateLimiter, the three tool        *)
(* handlers (create-issue, search-issues, read-resource) with their await   *)
(* points, and the query compiler (parseQuery, parseQueryPart,              *)
(* parsePriorityFilter).                                                    *)
(*                                                                          *)
(* Strings are sequences of atoms.  An atom is a piece of text that is      *)
(* either one separator character (" ", ":", a double quote, "/"), one      *)
(* digit, ".", or a word made only of ordinary characters, so that the      *)
(* character classes of the regular expressions of the source are decided   *)
(* atom by atom.                                                            *)
(***************************************************************************)
EXTENDS Integers, Sequences, FiniteSets, Bags, TLC

VARIABLES
  now,          \* Date.now(), in ms since the RateLimiter was constructed
  requests,     \* RateLimiter.requests
  metrics,      \* RateLimiter.metrics
  admitted,     \* history: the timestamps of all successful checkLimit calls
  inflight,     \* the bag of tool invocations suspended on an await
  returned,     \* <<>>, or <<the invocation whose handler has just ended>>
  rawQuery,     \* query compiler: the raw query string
  compiled,     \* query compiler: <<>> or <<the result of parseQuery(rawQuery)>>
  rawValue,     \* priority rule: the value of a priority token
  priorityOut   \* priority rule: <<>> or <<the result of parsePriorityFilter(rawValue)>>

vars == <<now, requests, metrics, admitted, inflight, returned, rawQuery, compiled, rawValue, priorityOut>>

serverVars == <<now, requests, metrics, admitted, inflight, returned>>
compilerVars == <<rawQuery, compiled>>
priorityVars == <<rawValue, priorityOut>>

----------------------------------------------------------------------------
(* Bounds of the model *)

\* this.requestsPerHour is 1000 in the source (line 16); the window is
\* scaled down so that a full window is reached.  checkLimit reads it only
\* through the comparison of line 30.
requestsPerHour == 2
\* successful admits after which no further search-issues call is started
MaxAdmits == 3
\* tool invocations suspended at the same time
MaxInFlight == 2
\* longest raw query, in atoms
MaxQueryLen == 4
\* longest priority value, in atoms
MaxValueLen == 3

(* Program constants *)
WindowMs == 3600000

----------------------------------------------------------------------------
(* JavaScript values *)

Undefined == [type |-> "undefined"]
NaN == [type |-> "NaN"]
Num(n) == [type |-> "number", n |-> n]
Str(s) == [type |-> "string", chars |-> s]

RECURSIVE Join(_)
\* the text of a string of atoms
Join(s) == IF s = <<>> THEN "" ELSE Head(s) \o Join(Tail(s))

Max(S) == CHOOSE x \in S : \A y \in S : y <= x
Min(S) == CHOOSE x \in S : \A y \in S : x <= y

----------------------------------------------------------------------------
(* RateLimiter *)

\* a checkLimit that keeps a timestamp that is exactly one hour old
KeepInclusive(t, time) == t - time <= WindowMs

\* the predicate of the filter of checkLimit: time => now - time < 3600000
Keep(t, time) == t - time < WindowMs

InitMetrics(t) ==
  [totalRequests |-> 0, requestsInLastHour |-> 0, averageRequestTime |-> 0,
   queueLength |-> 0, lastRequestTime |-> t]

\* a checkLimit whose limit test is off by one
checkLimitOffByOne(reqs, m, t) ==
  LET kept == SelectSeq(reqs, LAMBDA time : Keep(t, time))
  IN IF Len(kept) > requestsPerHour
     THEN [threw |-> TRUE, requests |-> kept, metrics |-> m]
     ELSE LET pushed == Append(kept, t)
          IN [threw |-> FALSE, requests |-> pushed,
              metrics |-> [m EXCEPT !.totalRequests = @ + 1,
                                    !.requestsInLastHour = Len(pushed),
                                    !.lastRequestTime = t]]

\* a checkLimit that counts the request before it tests the limit
checkLimitCountsFirst(reqs, m, t) ==
  LET kept == SelectSeq(reqs, LAMBDA time : Keep(t, time))
      counted == [m EXCEPT !.totalRequests = @ + 1, !.lastRequestTime = t]
  IN IF Len(kept) >= requestsPerHour
     THEN [threw |-> TRUE, requests |-> kept, metrics |-> counted]
     ELSE LET pushed == Append(kept, t)
          IN [threw |-> FALSE, requests |-> pushed,
              metrics |-> [counted EXCEPT !.requestsInLastHour = Len(pushed)]]

\* checkLimit at time t on window reqs and metrics m: whether it threw
\* 'Rate limit exceeded', and this.requests and this.metrics afterwards.
\* The body has no await: it runs as one step.
checkLimit(reqs, m, t) ==
  LET kept == SelectSeq(reqs, LAMBDA time : Keep(t, time))
  IN IF Len(kept) >= requestsPerHour
     THEN [threw |-> TRUE, requests |-> kept, metrics |-> m]
     ELSE LET pushed == Append(kept, t)
          IN [threw |-> FALSE, requests |-> pushed,
              metrics |-> [m EXCEPT !.totalRequests = @ + 1,
                                    !.requestsInLastHour = Len(pushed),
                                    !.lastRequestTime = t]]

getMetrics(m) ==
  [totalRequests |-> m.totalRequests,
   requestsInLastHour |-> m.requestsInLastHour,
   averageRequestTime |-> m.averageRequestTime,
   queueLength |-> m.queueLength,
   lastRequestTime |-> m.lastRequestTime,
   remainingRequests |-> requestsPerHour - m.requestsInLastHour]

----------------------------------------------------------------------------
(* Errors and responses *)

Error(msg) == [linear |-> FALSE, message |-> msg]
LinearError(msg) == [linear |-> TRUE, message |-> msg]

handleLinearError(error) ==
  IF error.linear
  THEN "Linear API Error: " \o error.message
  ELSE "Error: " \o error.message

\* a createResponse that forgets the metrics
createResponseBare(data, m) == data

\* {...data, apiMetrics: rateLimiter.getMetrics()}: the object that is
\* serialised into the text payload
createResponse(data, m) == ("apiMetrics" :> getMetrics(m)) @@ data

----------------------------------------------------------------------------
(* Query compiler: tokenisation *)

Digits == <<"0", "1", "2", "3", "4", "5", "6", "7", "8", "9">>
IsDigit(c) == \E d \in 1 .. 10 : Digits[d] = c
DigitVal(c) == (CHOOSE d \in 1 .. 10 : Digits[d] = c) - 1

\* whether atom c is in a character class of the regular expressions
InClass(class, c) ==
  CASE class = "\\S" -> c # " "
    [] class = "[^:\\s]" -> c # ":" /\ c # " "
    [] class = "[^/]" -> c # "/"
    [] class = "digit" -> IsDigit(c)

\* the last index j of the longest run s[i .. j] of atoms of the class
\* (below i when s[i] is not in the class)
RunEnd(s, i, class) ==
  LET stop == {j \in i .. Len(s) : ~InClass(class, s[j])}
  IN IF stop = {} THEN Len(s) ELSE Min(stop) - 1

\* the index of the first double quote at or after i, 0 when there is none
NextQuote(s, i) ==
  LET qs == {j \in i .. Len(s) : s[j] = "\""}
  IN IF qs = {} THEN 0 ELSE Min(qs)

\* \S+:"[^"]+" tried at i: the index of the closing quote, 0 when it fails.
\* \S+ is greedy: the longest prefix that lets the rest match is taken.
QuotedEnd(s, i) ==
  LET e == RunEnd(s, i, "\\S")
      K == {k \in 1 .. (e - i) :
              /\ s[i + k] = ":"
              /\ i + k + 1 <= Len(s)
              /\ s[i + k + 1] = "\""
              /\ NextQuote(s, i + k + 2) >= i + k + 3}
  IN IF K = {} THEN 0 ELSE NextQuote(s, i + Max(K) + 2)

\* [^:\s]+:[^\s]+ tried at i: the index of its last atom, 0 when it fails
KeyValueEnd(s, i) ==
  LET w == RunEnd(s, i, "[^:\\s]")
  IN IF w >= i /\ w + 1 <= Len(s) /\ s[w + 1] = ":"
     THEN LET r == RunEnd(s, w + 2, "\\S")
          IN IF r >= w + 2 THEN r ELSE 0
     ELSE 0

\* \S+ tried at i
WordEnd(s, i) ==
  LET e == RunEnd(s, i, "\\S")
  IN IF e >= i THEN e ELSE 0

\* the alternatives are tried in the order they are written
MatchEnd(s, i) ==
  IF QuotedEnd(s, i) # 0 THEN QuotedEnd(s, i)
  ELSE IF KeyValueEnd(s, i) # 0 THEN KeyValueEnd(s, i)
  ELSE WordEnd(s, i)

RECURSIVE MatchAll(_, _)
\* the matches of the global regular expression from index i on
MatchAll(s, i) ==
  IF i > Len(s) THEN <<>>
  ELSE LET e == MatchEnd(s, i)
       IN IF e = 0 THEN MatchAll(s, i + 1)
          ELSE <<SubSeq(s, i, e)>> \o MatchAll(s, e + 1)

\* query.match(/\S+:"[^"]+"|[^:\s]+:[^\s]+|\S+/g) || []
queryParts(query) == MatchAll(query, 1)

RECURSIVE Split(_)
\* part.split(':')
Split(s) ==
  LET cs == {j \in 1 .. Len(s) : s[j] = ":"}
  IN IF cs = {} THEN <<s>>
     ELSE <<SubSeq(s, 1, Min(cs) - 1)>> \o Split(SubSeq(s, Min(cs) + 1, Len(s)))

\* value?.replace(/^"(.*)"$/, '$1')
CleanValue(value) ==
  IF value = Undefined THEN Undefined
  ELSE LET v == value.chars
       IN IF Len(v) >= 2 /\ v[1] = "\"" /\ v[Len(v)] = "\""
          THEN Str(SubSeq(v, 2, Len(v) - 1))
          ELSE value

----------------------------------------------------------------------------
(* Query compiler: the priority rule *)

\* String.prototype.toLowerCase, atom by atom
LowerAtom(c) ==
  CASE c = "HIGH" -> "high"
    [] c = "High" -> "high"
    [] c = "Urgent" -> "urgent"
    [] c = "LOW" -> "low"
    [] OTHER -> c
toLowerCase(s) == [j \in 1 .. Len(s) |-> LowerAtom(s[j])]

\* isNaN(value): Number(undefined) is NaN; Number of a string is a number
\* when the string is empty or a decimal literal (digits with at most one
\* "." and at least one digit).  The atoms have no sign, exponent, hex
\* prefix, white space inside a value or "Infinity".
isNaN(value) ==
  IF value = Undefined THEN TRUE
  ELSE LET s == value.chars
       IN ~ \/ s = <<>>
            \/ /\ \A j \in 1 .. Len(s) : IsDigit(s[j]) \/ s[j] = "."
               /\ Cardinality({j \in 1 .. Len(s) : s[j] = "."}) <= 1
               /\ \E j \in 1 .. Len(s) : IsDigit(s[j])

RECURSIVE Decimal(_)
Decimal(s) == IF s = <<>> THEN 0 ELSE 10 * Decimal(SubSeq(s, 1, Len(s) - 1)) + DigitVal(s[Len(s)])

\* parseInt(value, 10) of a string: the leading digits, NaN when there are none
parseInt(s) ==
  LET e == RunEnd(s, 1, "digit")
  IN IF e >= 1 THEN Num(Decimal(SubSeq(s, 1, e))) ELSE NaN

\* PRIORITY_MAP[lowercaseValue]; no atom lower-cases to a property that an
\* object inherits (such as "constructor")
PRIORITY_MAP(s) ==
  CASE s = <<"no">> -> Num(0)
    [] s = <<"urgent">> -> Num(1)
    [] s = <<"high">> -> Num(2)
    [] s = <<"medium">> -> Num(3)
    [] s = <<"low">> -> Num(4)
    [] OTHER -> Undefined

\* the result of parsePriorityFilter(value): threw is TRUE when the call
\* raised a TypeError (value.toLowerCase() on undefined)
parsePriorityFilter(value) ==
  IF ~isNaN(value)
  THEN LET numValue == parseInt(value.chars)
       IN IF numValue # NaN /\ numValue.n >= 0 /\ numValue.n <= 4
          THEN IF numValue.n = 2
               THEN [threw |-> FALSE, value |-> [in |-> <<1, 2>>]]
               ELSE [threw |-> FALSE, value |-> [eq |-> numValue.n]]
          ELSE [threw |-> FALSE, value |-> Undefined]
  ELSE IF value = Undefined
  THEN [threw |-> TRUE, value |-> Undefined]
  ELSE LET lowercaseValue == toLowerCase(value.chars)
       IN IF lowercaseValue = <<"high">>
          THEN [threw |-> FALSE, value |-> [in |-> <<1, 2>>]]
          ELSE IF PRIORITY_MAP(lowercaseValue) # Undefined
          THEN [threw |-> FALSE, value |-> [eq |-> PRIORITY_MAP(lowercaseValue).n]]
          ELSE [threw |-> FALSE, value |-> Undefined]

----------------------------------------------------------------------------
(* Query compiler: parseQueryPart and parseQuery *)

\* objects are functions from their property names; obj.k = v
SetProp(obj, k, v) == (k :> v) @@ obj
\* delete obj.k
DeleteProp(obj, k) == [p \in DOMAIN obj \ {k} |-> obj[p]]

DefaultStateFilter == [type |-> [nin |-> <<"completed", "canceled">>]]
NameEq(cleanValue) == [name |-> [eq |-> cleanValue]]
FreeText(key) == <<[title |-> [contains |-> key]], [description |-> [contains |-> key]]>>

\* a parseQueryPart that sends an unknown key nowhere
parseQueryPartDropsOthers(key, cleanValue, filter) ==
  LET none == [isMyIssuesQuery |-> FALSE, priorityFilter |-> Undefined,
               hasExplicitStateFilter |-> FALSE, filter |-> filter, threw |-> FALSE]
  IN CASE key = <<"assignee">> -> [none EXCEPT !.isMyIssuesQuery = (cleanValue = Str(<<"@me">>))]
       [] key = <<"priority">> ->
            [none EXCEPT !.priorityFilter = parsePriorityFilter(cleanValue).value,
                         !.threw = parsePriorityFilter(cleanValue).threw]
       [] key = <<"state">> \/ key = <<"status">> ->
            [none EXCEPT !.hasExplicitStateFilter = TRUE,
                         !.filter = SetProp(filter, "state", NameEq(cleanValue))]
       [] key = <<"team">> -> [none EXCEPT !.filter = SetProp(filter, "team", NameEq(cleanValue))]
       [] key = <<"label">> -> [none EXCEPT !.filter = SetProp(filter, "labels", NameEq(cleanValue))]
       [] OTHER -> none

\* parseQueryPart(key, cleanValue, filter): the returned flags, the filter
\* object after the call (the call mutates it), and whether the call threw
parseQueryPart(key, cleanValue, filter) ==
  LET none == [isMyIssuesQuery |-> FALSE, priorityFilter |-> Undefined,
               hasExplicitStateFilter |-> FALSE, filter |-> filter, threw |-> FALSE]
  IN CASE key = <<"assignee">> -> [none EXCEPT !.isMyIssuesQuery = (cleanValue = Str(<<"@me">>))]
       [] key = <<"priority">> ->
            [none EXCEPT !.priorityFilter = parsePriorityFilter(cleanValue).value,
                         !.threw = parsePriorityFilter(cleanValue).threw]
       [] key = <<"state">> \/ key = <<"status">> ->
            [none EXCEPT !.hasExplicitStateFilter = TRUE,
                         !.filter = SetProp(filter, "state", NameEq(cleanValue))]
       [] key = <<"team">> -> [none EXCEPT !.filter = SetProp(filter, "team", NameEq(cleanValue))]
       [] key = <<"label">> -> [none EXCEPT !.filter = SetProp(filter, "labels", NameEq(cleanValue))]
       [] OTHER ->
            \* if (!key.includes(':'))
            IF ~ \E j \in 1 .. Len(key) : key[j] = ":"
            THEN [none EXCEPT !.filter = SetProp(filter, "or", FreeText(key))]
            ELSE none

RECURSIVE parseLoop(_, _)
\* the for loop of parseQuery over the remaining parts, from the state acc
\* of its local variables; a TypeError ends the loop
parseLoop(parts, acc) ==
  IF parts = <<>> \/ acc.threw THEN acc
  ELSE LET pieces == Split(Head(parts))
           key == pieces[1]
           value == IF Len(pieces) >= 2 THEN Str(pieces[2]) ELSE Undefined
           result == parseQueryPart(key, CleanValue(value), acc.filter)
       IN parseLoop(Tail(parts),
            [filter |-> result.filter,
             isMyIssuesQuery |-> result.isMyIssuesQuery \/ acc.isMyIssuesQuery,
             priorityFilter |-> IF result.priorityFilter # Undefined
                                THEN result.priorityFilter ELSE acc.priorityFilter,
             hasExplicitStateFilter |-> result.hasExplicitStateFilter \/ acc.hasExplicitStateFilter,
             threw |-> result.threw])

\* parseQuery after the tokenisation: the loop over queryParts, then the
\* removal of the default state filter.  The result is threw (a TypeError
\* left parseQuery), or {filter, isMyIssuesQuery, priorityFilter}.
parseParts(parts) ==
  LET end == parseLoop(parts,
               [filter |-> [state |-> DefaultStateFilter], isMyIssuesQuery |-> FALSE,
                priorityFilter |-> Undefined, hasExplicitStateFilter |-> FALSE,
                threw |-> FALSE])
  IN IF end.threw
     THEN [threw |-> TRUE]
     ELSE [threw |-> FALSE,
           filter |-> IF end.hasExplicitStateFilter
                      THEN SetProp(end.filter, "state", DeleteProp(end.filter.state, "type"))
                      ELSE end.filter,
           isMyIssuesQuery |-> end.isMyIssuesQuery,
           priorityFilter |-> end.priorityFilter]

parseQuery(query) == parseParts(queryParts(query))

----------------------------------------------------------------------------
(* Tool invocations *)

\* One record per invocation of a tool handler.
\* pc: the call the handler is suspended on ("checkLimit", "viewer",
\* "assignedIssues", "issues", "issueCreate", "issue", "organization",
\* "team", "states", "teams", "teamStates"), "done" once it has returned its
\* response, "escaped" if an exception left the handler.
\* calls, admits, denied, failure are history: the upstream calls the
\* invocation has made, its successful checkLimit calls, whether its
\* checkLimit threw, and the exception caught at the boundary.
Begin(tool, input) ==
  [pc |-> "start", tool |-> tool, input |-> input, response |-> <<>>,
   calls |-> 0, admits |-> 0, denied |-> FALSE, failure |-> <<>>]

\* the handler makes an upstream call and suspends on it
Await(call, slot) == [slot EXCEPT !.pc = call, !.calls = @ + 1]

\* return createResponse(data)
Return(slot, data, m) ==
  [slot EXCEPT !.pc = "done", !.response = <<createResponse(data, m)>>]

\* a catch block that handles only the errors of the upstream client
toolCatchLinearOnly(slot, error, m) ==
  IF error.linear
  THEN [slot EXCEPT !.pc = "done", !.failure = <<error>>,
                    !.response = <<createResponse([error |-> handleLinearError(error)], m)>>]
  ELSE [slot EXCEPT !.pc = "escaped", !.failure = <<error>>]

\* the catch block that encloses the whole body of each handler:
\* return createResponse({ error: handleLinearError(error) })
toolCatch(slot, error, m) ==
  [slot EXCEPT !.pc = "done", !.failure = <<error>>,
               !.response = <<createResponse([error |-> handleLinearError(error)], m)>>]

\* how an awaited upstream call can end
Outcomes(call) ==
  {"ok", "LinearError", "Error"}
    \cup (IF call = "issueCreate" THEN {"unsuccessful"} ELSE {})
    \cup (IF call = "issue" THEN {"missing"} ELSE {})

Rejection(o) ==
  IF o = "LinearError" THEN LinearError("request failed") ELSE Error("network failure")

\* the invocations that are suspended
Suspended == BagToSet(inflight)

\* the handler of invocation old ran on to next: it is suspended again, or
\* it has ended and its result goes to the transport
Advance(old, next) ==
  IF next.pc \in {"done", "escaped"}
  THEN /\ inflight' = inflight (-) SetToBag({old})
       /\ returned' = <<next>>
  ELSE /\ inflight' = (inflight (-) SetToBag({old})) (+) SetToBag({next})
       /\ returned' = returned

\* a new invocation ran up to next
Start(next) ==
  IF next.pc \in {"done", "escaped"}
  THEN /\ inflight' = inflight
       /\ returned' = <<next>>
  ELSE /\ inflight' = inflight (+) SetToBag({next})
       /\ returned' = returned

\* the host calls a handler only while the previous result has been sent
CanInvoke == returned = <<>> /\ BagCardinality(inflight) < MaxInFlight

----------------------------------------------------------------------------
(* create-issue *)

CreateInvoke ==
  /\ CanInvoke
  /\ Start(Await("issueCreate", Begin("create-issue", <<>>)))
  /\ UNCHANGED <<now, requests, metrics, admitted, compilerVars, priorityVars>>

CreateReturn ==
  /\ returned = <<>>
  /\ \E slot \in Suspended, o \in Outcomes("issueCreate") :
       /\ slot.tool = "create-issue" /\ slot.pc = "issueCreate"
       /\ Advance(slot,
            CASE o = "ok" -> Return(slot, [success |-> TRUE, issue |-> "mapIssue(issue.issue)"], metrics)
              [] o = "unsuccessful" -> toolCatch(slot, Error("Failed to create issue"), metrics)
              [] OTHER -> toolCatch(slot, Rejection(o), metrics))
  /\ UNCHANGED <<now, requests, metrics, admitted, compilerVars, priorityVars>>

----------------------------------------------------------------------------
(* search-issues *)

SampleQueries ==
  {<<"assignee", ":", "@me">>, <<"foo">>, <<"priority">>}

\* the handler starts: rateLimiter.checkLimit() runs to its end and the
\* handler suspends on the promise it returned
SearchInvoke(q) ==
  /\ CanInvoke
  /\ metrics.totalRequests < MaxAdmits
  /\ LET r == checkLimit(requests, metrics, now)
     IN /\ requests' = r.requests
        /\ metrics' = r.metrics
        /\ admitted' = IF r.threw THEN admitted ELSE Append(admitted, now)
        /\ Start([Begin("search-issues", q) EXCEPT
                    !.pc = "checkLimit", !.denied = r.threw,
                    !.admits = IF r.threw THEN 0 ELSE 1])
  /\ UNCHANGED <<now, compilerVars, priorityVars>>

\* the await of checkLimit() resumes: the rejection is caught, or the
\* handler reads linearClient.viewer
SearchAdmitted ==
  /\ returned = <<>>
  /\ \E slot \in Suspended :
       /\ slot.tool = "search-issues" /\ slot.pc = "checkLimit"
       /\ Advance(slot,
            IF slot.denied
            THEN toolCatch(slot, Error("Rate limit exceeded"), metrics)
            ELSE Await("viewer", slot))
  /\ UNCHANGED <<now, requests, metrics, admitted, compilerVars, priorityVars>>

\* linearClient.viewer settles; on success parseQuery runs and the handler
\* calls me.assignedIssues or linearClient.issues
SearchViewer ==
  /\ returned = <<>>
  /\ \E slot \in Suspended, o \in Outcomes("viewer") :
       /\ slot.tool = "search-issues" /\ slot.pc = "viewer"
       /\ Advance(slot,
            IF o # "ok"
            THEN toolCatch(slot, Error("Failed to get current user information"), metrics)
            ELSE LET parsed == parseQuery(slot.input)
                 IN IF parsed.threw
                    THEN toolCatch(slot, Error("Cannot read properties of undefined (reading 'toLowerCase')"), metrics)
                    ELSE IF parsed.isMyIssuesQuery
                    THEN Await("assignedIssues", slot)
                    ELSE Await("issues", slot))
  /\ UNCHANGED <<now, requests, metrics, admitted, compilerVars, priorityVars>>

SearchReturn ==
  /\ returned = <<>>
  /\ \E slot \in Suspended, o \in Outcomes("issues") :
       /\ slot.tool = "search-issues" /\ slot.pc \in {"assignedIssues", "issues"}
       /\ Advance(slot,
            IF o # "ok"
            THEN toolCatch(slot, Rejection(o), metrics)
            ELSE IF slot.pc = "assignedIssues"
            THEN Return(slot, [message |-> "Found ${mappedIssues.length} issues assigned to you",
                               total |-> "mappedIssues.length",
                               issues |-> "mappedIssues"], metrics)
            ELSE Return(slot, [message |-> "Found ${mappedIssues.length} issues",
                               total |-> "mappedIssues.length",
                               issues |-> "mappedIssues"], metrics))
  /\ UNCHANGED <<now, requests, metrics, admitted, compilerVars, priorityVars>>

----------------------------------------------------------------------------
(* read-resource *)

\* uri.match(/^linear:\/\/([^/]+)\/(.+)$/)
matchUri(uri) ==
  LET e == RunEnd(uri, 4, "[^/]")
  IN IF /\ Len(uri) >= 3
        /\ uri[1] = "linear:" /\ uri[2] = "/" /\ uri[3] = "/"
        /\ e >= 4
        /\ e + 2 <= Len(uri)
        /\ uri[e + 1] = "/"
     THEN [matched |-> TRUE, resourceType |-> SubSeq(uri, 4, e),
           id |-> SubSeq(uri, e + 2, Len(uri))]
     ELSE [matched |-> FALSE]

ResourceTypes == {"issues", "organization", "teams"}

SampleUris ==
  {<<"linear:", "/", "/", t, "/", "id">> : t \in ResourceTypes \cup {"users"}}
    \cup {<<"linear:", "/", "/", t>> : t \in ResourceTypes}
    \cup {<<"linear:", "/", "/", "issues", "/">>, <<"issues", "/", "id">>}

\* the handler up to its first await, or to its end when it throws first
ReadInvoke(uri) ==
  /\ CanInvoke
  /\ LET slot == Begin("read-resource", uri)
         matches == matchUri(uri)
     IN Start(
          IF ~matches.matched
          THEN toolCatch(slot, Error("Invalid Linear URI format: " \o Join(uri)), metrics)
          ELSE CASE matches.resourceType = <<"issues">> ->
                      IF matches.id # <<>> THEN Await("issue", slot) ELSE Await("issues", slot)
                 [] matches.resourceType = <<"organization">> -> Await("organization", slot)
                 [] matches.resourceType = <<"teams">> ->
                      IF matches.id # <<>> THEN Await("team", slot) ELSE Await("teams", slot)
                 [] OTHER ->
                      toolCatch(slot, Error("Unknown resource type: " \o Join(matches.resourceType)), metrics))
  /\ UNCHANGED <<now, requests, metrics, admitted, compilerVars, priorityVars>>

\* the awaited upstream call settles and the handler runs on
ReadReturn ==
  /\ returned = <<>>
  /\ \E slot \in Suspended :
       /\ slot.tool = "read-resource"
       /\ \E o \in Outcomes(slot.pc), nTeams \in {0, 1} :
            Advance(slot,
              CASE o = "missing" ->
                     toolCatch(slot, Error("Issue not found: " \o Join(matchUri(slot.input).id)), metrics)
                [] o \in {"LinearError", "Error"} -> toolCatch(slot, Rejection(o), metrics)
                [] o = "ok" /\ slot.pc = "team" -> Await("states", slot)
                [] o = "ok" /\ slot.pc = "teams" ->
                     \* Promise.all over one team.states() call per team
                     [slot EXCEPT !.pc = "teamStates", !.calls = @ + nTeams]
                [] OTHER -> Return(slot, [data |-> "data"], metrics))
  /\ UNCHANGED <<now, requests, metrics, admitted, compilerVars, priorityVars>>

----------------------------------------------------------------------------
(* The server *)

\* the instants the clock is read at: ages of 0, 1, one hour less 1 ms, one
\* hour, and one hour and 1 ms occur between them
Instants == {0, 1, WindowMs, WindowMs + 1}

\* time passes
Tick ==
  /\ returned = <<>>
  /\ \E t \in Instants : t > now /\ now' = t
  /\ UNCHANGED <<requests, metrics, admitted, inflight, returned, compilerVars, priorityVars>>

\* the transport sends the result of the handler that ended
Respond ==
  /\ returned # <<>>
  /\ returned' = <<>>
  /\ UNCHANGED <<now, requests, metrics, admitted, inflight, compilerVars, priorityVars>>

\* const rateLimiter = new RateLimiter(), and no tool call yet
InitServer ==
  /\ now = 0
  /\ requests = <<>>
  /\ metrics = InitMetrics(0)
  /\ admitted = <<>>
  /\ inflight = EmptyBag
  /\ returned = <<>>

Init ==
  /\ InitServer
  /\ rawQuery = <<>> /\ compiled = <<>>
  /\ rawValue = <<>> /\ priorityOut = <<>>

Next ==
  \/ Tick
  \/ Respond
  \/ CreateInvoke
  \/ CreateReturn
  \/ \E q \in SampleQueries : SearchInvoke(q)
  \/ SearchAdmitted
  \/ SearchViewer
  \/ SearchReturn
  \/ \E uri \in SampleUris : ReadInvoke(uri)
  \/ ReadReturn

Spec == Init /\ [][Next]_vars

----------------------------------------------------------------------------
(* The query compiler on every raw query of at most MaxQueryLen atoms *)

QueryAtoms ==
  {" ", ":", "\"", "assignee", "@me", "priority", "state", "status", "team",
   "label", "foo", "high"}

InitCompiler ==
  /\ rawQuery = <<>>
  /\ compiled = <<>>
  /\ InitServer
  /\ rawValue = <<>> /\ priorityOut = <<>>

TypeQuery(a) ==
  /\ compiled = <<>>
  /\ Len(rawQuery) < MaxQueryLen
  /\ rawQuery' = Append(rawQuery, a)
  /\ UNCHANGED <<compiled, serverVars, priorityVars>>

Compile ==
  /\ compiled = <<>>
  /\ compiled' = <<parseQuery(rawQuery)>>
  /\ UNCHANGED <<rawQuery, serverVars, priorityVars>>

NextCompiler ==
  \/ \E a \in QueryAtoms : TypeQuery(a)
  \/ Compile

SpecCompiler == InitCompiler /\ [][NextCompiler]_vars

----------------------------------------------------------------------------
(* The priority rule on every value of at most MaxValueLen atoms *)

ValueAtoms ==
  {"0", "1", "2", "3", "4", "5", ".", "no", "urgent", "high", "medium", "low",
   "HIGH", "Urgent", "foo"}

InitPriority ==
  /\ rawValue = <<>>
  /\ priorityOut = <<>>
  /\ InitServer
  /\ rawQuery = <<>> /\ compiled = <<>>

TypeValue(a) ==
  /\ priorityOut = <<>>
  /\ Len(rawValue) < MaxValueLen
  /\ rawValue' = Append(rawValue, a)
  /\ UNCHANGED <<priorityOut, serverVars, compilerVars>>

ApplyPriority ==
  /\ priorityOut = <<>>
  /\ priorityOut' = <<parsePriorityFilter(Str(rawValue))>>
  /\ UNCHANGED <<rawValue, serverVars, compilerVars>>

NextPriority ==
  \/ \E a \in ValueAtoms : TypeValue(a)
  \/ ApplyPriority

SpecPriority == InitPriority /\ [][NextPriority]_vars

----------------------------------------------------------------------------
(* Properties of the RateLimiter and of the handlers, under Spec *)

Finished == {returned[k] : k \in 1 .. Len(returned)}
Invocations == Suspended \cup Finished

\* the invocations whose handler started in this step: each has just run
\* checkLimit at time now
Attempts ==
  {r \in BagToSet(inflight') :
     r.pc = "checkLimit" /\ CopiesIn(r, inflight') > CopiesIn(r, inflight)}

\* the successful admits of the history that are less than / at most one
\* hour old at time now
AdmitsYoungerThanHour == {k \in 1 .. Len(admitted) : now - admitted[k] < WindowMs}
AdmitsNotOlderThanHour == {k \in 1 .. Len(admitted) : now - admitted[k] <= WindowMs}

\* C1: the window never holds more than requestsPerHour timestamps, under
\* every interleaving of the handlers; and an admit attempted while
\* requestsPerHour successful admits lie less than one hour back fails.
C1_WindowNeverExceedsCeiling ==
  /\ [](Len(requests) <= requestsPerHour)
  /\ [][\A r \in Attempts :
          Cardinality(AdmitsYoungerThanHour) >= requestsPerHour => r.denied]_vars

\* two handlers are suspended on their checkLimit promise at once, one
\* admitted into the last place of the window and one denied
C1_Witness ==
  /\ Len(requests) = requestsPerHour
  /\ \E r1, r2 \in Suspended :
       /\ r1.pc = "checkLimit" /\ ~r1.denied
       /\ r2.pc = "checkLimit" /\ r2.denied

\* C2 as stated: right after an admit attempt at time now the window holds
\* exactly the successful admits that are not older than 3,600,000 ms (age
\* <= 3,600,000), and the attempt succeeds whenever fewer than
\* requestsPerHour admits lie in that trailing hour.
C2_WindowKeepsNotOlderThanHour ==
  [][\A r \in Attempts :
       /\ requests' = SelectSeq(admitted', LAMBDA t : now - t <= WindowMs)
       /\ Cardinality(AdmitsNotOlderThanHour) < requestsPerHour => ~r.denied]_vars

\* C2 amended: right after an admit attempt at time now the window holds
\* exactly the successful admits that are less than 3,600,000 ms old (a
\* timestamp exactly 3,600,000 ms old is dropped), and the attempt succeeds
\* if and only if fewer than requestsPerHour admits are that young.
C2_WindowKeepsYoungerThanHour ==
  [][\A r \in Attempts :
       /\ requests' = SelectSeq(admitted', LAMBDA t : now - t < WindowMs)
       /\ Cardinality(AdmitsYoungerThanHour) < requestsPerHour <=> ~r.denied]_vars

\* an admit has just succeeded at time now, and a timestamp admitted exactly
\* one hour before is no longer in the window
C2_Witness ==
  /\ \E r \in Suspended : r.pc = "checkLimit" /\ ~r.denied
  /\ requests # <<>> /\ requests[Len(requests)] = now
  /\ \E k \in 1 .. Len(admitted) :
       /\ now - admitted[k] = WindowMs
       /\ \A j \in 1 .. Len(requests) : requests[j] # admitted[k]

\* C3: every upstream call of an invocation is preceded by a successful
\* checkLimit of its own, and an invocation whose checkLimit was denied
\* makes no upstream call.
C3_EveryUpstreamCallAdmitted ==
  \A r \in Invocations : r.calls <= r.admits /\ (r.denied => r.calls = 0)

\* C4: a handler that ends has returned a response; no exception leaves it;
\* the response carries the metrics of that moment under apiMetrics; and
\* when the call failed the response is {error: <string>} and nothing else.
C4_HandlerIsErrorBoundary ==
  /\ \A r \in Suspended : r.pc # "escaped"
  /\ \A r \in Finished :
       /\ r.pc = "done"
       /\ Len(r.response) = 1
       /\ "apiMetrics" \in DOMAIN r.response[1]
       /\ r.response[1].apiMetrics = getMetrics(metrics)
       /\ r.failure # <<>> =>
            /\ DOMAIN r.response[1] = {"error", "apiMetrics"}
            /\ r.response[1].error \in
                 {"Error: " \o r.failure[1].message,
                  "Linear API Error: " \o r.failure[1].message}
       /\ r.failure = <<>> => "error" \notin DOMAIN r.response[1]

\* each kind of failure has ended in an {error} response: a rate-limit
\* denial, an upstream error, a malformed URI, and a TypeError
C4_Witness ==
  \E r \in Finished :
    /\ r.denied
    /\ r.failure = <<Error("Rate limit exceeded")>>
    /\ r.response[1].error = "Error: Rate limit exceeded"
    /\ r.response[1].apiMetrics.requestsInLastHour = requestsPerHour

ListUris == {<<"linear:", "/", "/", t>> : t \in ResourceTypes}

\* C9: read-resource on a URI without an id (linear://issues,
\* linear://organization, linear://teams) is not refused as malformed: its
\* handler does not end in the 'Invalid Linear URI format' error.
C9_ListUriIsAccepted ==
  \A r \in Finished :
    r.tool = "read-resource" /\ r.input \in ListUris =>
      r.failure # <<Error("Invalid Linear URI format: " \o Join(r.input))>>

\* C10: a denied checkLimit leaves the window, the metrics and the history
\* as they were; a successful one appends now and adds exactly one to
\* totalRequests; no other step changes the window or the metrics.
C10_DeniedAdmitChangesNothing ==
  [][/\ \A r \in Attempts :
          IF r.denied
          THEN requests' = requests /\ metrics' = metrics /\ admitted' = admitted
          ELSE /\ requests' # <<>> /\ requests'[Len(requests')] = now
               /\ Len(requests') <= Len(requests) + 1
               /\ metrics'.totalRequests = metrics.totalRequests + 1
               /\ metrics'.lastRequestTime = now
     /\ Attempts = {} => requests' = requests /\ metrics' = metrics]_vars

\* a handler is suspended on a denied checkLimit while the window is full
\* and the counter stands at the number of admits so far
C10_Witness ==
  \E r \in Suspended :
    /\ r.pc = "checkLimit" /\ r.denied /\ r.calls = 0
    /\ metrics.totalRequests = Len(admitted)
    /\ metrics.requestsInLastHour = requestsPerHour

----------------------------------------------------------------------------
(* Properties of the query compiler, under SpecCompiler and SpecPriority *)

HandledKeys == {<<"assignee">>, <<"priority">>, <<"state">>, <<"status">>, <<"team">>, <<"label">>}

HasColon(part) == \E j \in 1 .. Len(part) : part[j] = ":"
\* the text of a key:value token before its first colon
TokenKey(part) == SubSeq(part, 1, Min({j \in 1 .. Len(part) : part[j] = ":"}) - 1)
\* the text of a key:value token after its first colon, without the quotes
\* around it
TokenValue(part) ==
  LET v == SubSeq(part, Min({j \in 1 .. Len(part) : part[j] = ":"}) + 1, Len(part))
  IN IF Len(v) >= 2 /\ v[1] = "\"" /\ v[Len(v)] = "\"" THEN SubSeq(v, 2, Len(v) - 1) ELSE v

Tokens == queryParts(rawQuery)

\* C5: parseQuery returns a result for every raw query: it never throws.
C5_ParseQueryNeverThrows ==
  compiled # <<>> => ~compiled[1].threw

StateTokens ==
  {k \in 1 .. Len(Tokens) :
     HasColon(Tokens[k]) /\ TokenKey(Tokens[k]) \in {<<"state">>, <<"status">>}}

\* C6: the state predicate of the compiled filter is the default exclusion
\* if and only if the query has no state: or status: token; otherwise it is
\* the name equality on the value of the last such token.
C6_StatePredicate ==
  compiled # <<>> /\ ~compiled[1].threw =>
    compiled[1].filter.state =
      IF StateTokens = {}
      THEN DefaultStateFilter
      ELSE NameEq(Str(TokenValue(Tokens[Max(StateTokens)])))

\* a key:value token (a key, a colon, a value) whose key is not handled
UnknownKeyValue(part) ==
  /\ HasColon(part)
  /\ TokenKey(part) # <<>> /\ TokenValue(part) # <<>>
  /\ TokenKey(part) \notin HandledKeys

\* C8: the key:value tokens whose key is not handled have no effect: the
\* result is the result of the query without them.
C8_UnknownKeyValueDropped ==
  compiled # <<>> =>
    compiled[1] = parseParts(SelectSeq(Tokens, LAMBDA part : ~UnknownKeyValue(part)))

\* a numeric string that denotes an integer: digits, possibly followed by
\* "." and zeros
IsIntegerString(s) ==
  LET e == RunEnd(s, 1, "digit")
  IN /\ e >= 1
     /\ e < Len(s) => s[e + 1] = "." /\ \A j \in e + 2 .. Len(s) : s[j] = "0"
IntegerOf(s) == Decimal(SubSeq(s, 1, RunEnd(s, 1, "digit")))

\* the priority filter the rule of C7 gives for a value
PriorityRule(s) ==
  IF IsIntegerString(s)
  THEN IF IntegerOf(s) = 2 THEN [in |-> <<1, 2>>]
       ELSE IF IntegerOf(s) \in {0, 1, 3, 4} THEN [eq |-> IntegerOf(s)]
       ELSE Undefined
  ELSE CASE toLowerCase(s) = <<"high">> -> [in |-> <<1, 2>>]
         [] toLowerCase(s) = <<"no">> -> [eq |-> 0]
         [] toLowerCase(s) = <<"urgent">> -> [eq |-> 1]
         [] toLowerCase(s) = <<"medium">> -> [eq |-> 3]
         [] toLowerCase(s) = <<"low">> -> [eq |-> 4]
         [] OTHER -> Undefined

\* C7: 0, 1, 3, 4 give equality on that ordinal; 2 and high (any case) give
\* {in: [1, 2]}; no, urgent, medium, low (any case) give equality on 0, 1,
\* 3, 4; every other value gives no priority filter.
C7_PriorityRule ==
  priorityOut # <<>> =>
    ~priorityOut[1].threw /\ priorityOut[1].value = PriorityRule(rawValue)

====
